---- MODULE Spec2Model ----
(***************************************************************************)
(* Model of the comparison engine of src/app.py: normalize_types and       *)
(* execute_comparison.  A table (polars DataFrame) is a record             *)
(*   [columns : sequence of column names, in table order,                  *)
(*    dtype   : column name -> "Int" | "String",                           *)
(*    rows    : sequence of rows, a row being column name -> value].       *)
(* A value is a record [k, i, s]: k = "null" | "int" | "str", i the        *)
(* integer, s the text as a sequence of character codes.                   *)
(***************************************************************************)
EXTENDS Integers, Sequences, FiniteSets, TLC

\* ------------------------------------------------------------------ bounds

\* Largest number of data rows of an input table.
MaxRows == 2

\* ------------------------------------------------------------------ values

Null == [k |-> "null", i |-> 0, s |-> <<>>]
IntV(n) == [k |-> "int", i |-> n, s |-> <<>>]
StrV(t) == [k |-> "str", i |-> 0, s |-> t]

IsNull(v) == v.k = "null"

\* Optional values (Python None / a value) are sequences of length 0 / 1.
None == <<>>
Some(x) == <<x>>

TagA == "Linha_Original_A"
TagB == "Linha_Original_B"

Range(f) == {f[x] : x \in DOMAIN f}

\* Whitespace removed by str.strip_chars() (space, tab, LF, CR).
IsSpace(c) == c \in {32, 9, 10, 13}

RECURSIVE StripLeft(_)
StripLeft(t) ==
    IF t = <<>> THEN <<>>
    ELSE IF IsSpace(Head(t)) THEN StripLeft(Tail(t)) ELSE t

RECURSIVE StripRight(_)
StripRight(t) ==
    IF t = <<>> THEN <<>>
    ELSE IF IsSpace(t[Len(t)]) THEN StripRight(SubSeq(t, 1, Len(t) - 1)) ELSE t

\* pl.col(c).str.strip_chars() on one value: null stays null.
StripChars(v) == IF IsNull(v) THEN v ELSE StrV(StripRight(StripLeft(v.s)))

\* Decimal text of a non-negative integer, as character codes ("0" is 48).
RECURSIVE IntToStr(_)
IntToStr(n) ==
    IF n < 10 THEN <<48 + n>> ELSE IntToStr(n \div 10) \o <<48 + (n % 10)>>

\* pl.col(c).cast(pl.String) on one value: null stays null.
CastString(v) ==
    IF v.k = "int" THEN StrV(IntToStr(v.i)) ELSE v

\* ------------------------------------------------------------------ tables

Height(df) == Len(df.rows)

\* with_row_index with the offset forgotten: positions 1, 2, ...
WithRowIndexOffset1(df, name) ==
    [columns |-> <<name>> \o df.columns,
     dtype   |-> [c \in Range(df.columns) \cup {name} |->
                     IF c = name THEN "Int" ELSE df.dtype[c]],
     rows    |-> [p \in 1..Height(df) |->
                     [c \in Range(df.columns) \cup {name} |->
                         IF c = name THEN IntV(p) ELSE df.rows[p][c]]]]

\* df.with_row_index(name, offset=2): a new first column holding 2, 3, ...
WithRowIndex(df, name) ==
    [columns |-> <<name>> \o df.columns,
     dtype   |-> [c \in Range(df.columns) \cup {name} |->
                     IF c = name THEN "Int" ELSE df.dtype[c]],
     rows    |-> [p \in 1..Height(df) |->
                     [c \in Range(df.columns) \cup {name} |->
                         IF c = name THEN IntV(p + 1) ELSE df.rows[p][c]]]]

\* The name set with the tag column left in.
DataColsAll(df, tag) == Range(df.columns)

\* set(c for c in df.columns if c != tag)
DataCols(df, tag) == {c \in Range(df.columns) : c # tag}

SymmetricDifference(s, t) == (s \ t) \cup (t \ s)

\* [c for c in df.columns if c not in [tag]]
RECURSIVE SelectNot(_, _)
SelectNot(cols, tag) ==
    IF cols = <<>> THEN <<>>
    ELSE IF Head(cols) = tag THEN SelectNot(Tail(cols), tag)
    ELSE <<Head(cols)>> \o SelectNot(Tail(cols), tag)

\* df.filter(mask): the rows whose mask entry is true, in order.
RECURSIVE FilterSeq(_, _)
FilterSeq(rows, mask) ==
    IF rows = <<>> THEN <<>>
    ELSE IF Head(mask) THEN <<Head(rows)>> \o FilterSeq(Tail(rows), Tail(mask))
    ELSE FilterSeq(Tail(rows), Tail(mask))

Filter(df, mask) == [df EXCEPT !.rows = FilterSeq(df.rows, mask)]

\* mask.sum()
RECURSIVE MaskSum(_)
MaskSum(mask) ==
    IF mask = <<>> THEN 0
    ELSE (IF Head(mask) THEN 1 ELSE 0) + MaskSum(Tail(mask))

\* ------------------------------------------------------- normalize_types

\* The casts normalize_types collects for one common column.
NormalizeValue(d1, d2, v) ==
    IF d1 # d2 THEN StripChars(CastString(v))
    ELSE IF d1 = "String" THEN StripChars(v)
    ELSE v

NormalizeDtype(d1, d2) == IF d1 # d2 THEN "String" ELSE d1

\* One side of normalize_types: df with the casts of the common data columns.
NormalizeSide(df, other) ==
    LET common == (Range(df.columns) \cap Range(other.columns)) \ {TagA, TagB}
    IN [columns |-> df.columns,
        dtype   |-> [c \in DOMAIN df.dtype |->
                        IF c \in common
                        THEN NormalizeDtype(df.dtype[c], other.dtype[c])
                        ELSE df.dtype[c]],
        rows    |-> [p \in 1..Height(df) |->
                        [c \in DOMAIN df.rows[p] |->
                            IF c \in common
                            THEN NormalizeValue(df.dtype[c], other.dtype[c], df.rows[p][c])
                            ELSE df.rows[p][c]]]]

normalize_types(df1, df2) == <<NormalizeSide(df1, df2), NormalizeSide(df2, df1)>>

\* ------------------------------------------------------------------ sort

\* Lexicographic order of two texts by character code.
RECURSIVE StrLess(_, _)
StrLess(a, b) ==
    IF b = <<>> THEN FALSE
    ELSE IF a = <<>> THEN TRUE
    ELSE IF Head(a) # Head(b) THEN Head(a) < Head(b)
    ELSE StrLess(Tail(a), Tail(b))

\* Ascending order of one column, nulls first (polars' default).
ValLess(a, b) ==
    IF IsNull(a) THEN ~IsNull(b)
    ELSE IF IsNull(b) THEN FALSE
    ELSE IF a.k = "int" THEN a.i < b.i
    ELSE StrLess(a.s, b.s)

\* Row r sorts strictly before row q under the key list by.
RECURSIVE RowLess(_, _, _)
RowLess(r, q, by) ==
    IF by = <<>> THEN FALSE
    ELSE IF ValLess(r[Head(by)], q[Head(by)]) THEN TRUE
    ELSE IF ValLess(q[Head(by)], r[Head(by)]) THEN FALSE
    ELSE RowLess(r, q, Tail(by))

\* Stable insertion: r goes after every row that does not sort after it.
RECURSIVE InsertRow(_, _, _)
InsertRow(sorted, r, by) ==
    IF sorted = <<>> THEN <<r>>
    ELSE IF RowLess(r, Head(sorted), by) THEN <<r>> \o sorted
    ELSE <<Head(sorted)>> \o InsertRow(Tail(sorted), r, by)

RECURSIVE SortRows(_, _)
SortRows(rows, by) ==
    IF rows = <<>> THEN <<>>
    ELSE InsertRow(SortRows(SubSeq(rows, 1, Len(rows) - 1), by), rows[Len(rows)], by)

\* A sort whose result is dropped: the table stays in physical order.
SortNot(df, by) == df

\* df.sort(by, maintain_order=True), for a key list whose columns all exist.
Sort(df, by) == [df EXCEPT !.rows = SortRows(df.rows, by)]

\* The names of by that are no column of df (polars raises ColumnNotFoundError).
RECURSIVE MissingKeys(_, _)
MissingKeys(df, by) ==
    IF by = <<>> THEN <<>>
    ELSE IF Head(by) \in Range(df.columns) THEN MissingKeys(df, Tail(by))
    ELSE <<Head(by)>> \o MissingKeys(df, Tail(by))

\* ------------------------------------------------------------- detection

\* A comparison for which a null equals nothing, itself included.
NeNullUnequal(a, b) ==
    IF IsNull(a) \/ IsNull(b) THEN TRUE ELSE a # b

\* Series.ne: a null on either side gives null, which sum and filter skip.
NePropagating(a, b) ==
    IF IsNull(a) \/ IsNull(b) THEN FALSE ELSE a # b

\* Series.ne_missing on one pair of values.
NeMissing(a, b) ==
    IF IsNull(a) /\ IsNull(b) THEN FALSE
    ELSE IF IsNull(a) \/ IsNull(b) THEN TRUE
    ELSE a # b

\* mask = df1[col].ne_missing(df2[col])
ColumnMask(df1, df2, col) ==
    [p \in 1..Height(df1) |-> NeMissing(df1.rows[p][col], df2.rows[p][col])]

\* global_error_mask & mask
MaskAnd(m1, m2) == [p \in 1..Len(m1) |-> m1[p] /\ m2[p]]

\* global_error_mask | mask
MaskOr(m1, m2) == [p \in 1..Len(m1) |-> m1[p] \/ m2[p]]

\* v1, v2 and combined for one column: one record per mismatched position.
Combined(df1, df2, col, mask) ==
    LET v1 == FilterSeq(df1.rows, mask)
        v2 == FilterSeq(df2.rows, mask)
    IN [p \in 1..Len(v1) |->
           [Linha_Original_A |-> v1[p][TagA],
            Linha_Original_B |-> v2[p][TagB],
            Valor_Arq_A      |-> v1[p][col],
            Valor_Arq_B      |-> v2[p][col]]]

\* The loop state: diff_results, cols_with_diff, global_error_mask.
EmptyDiffs == [c \in {} |-> [count |-> 0, data |-> <<>>]]

LoopInit == [diff_results |-> EmptyDiffs, cols_with_diff |-> <<>>,
             global_error_mask |-> None]

\* One iteration of the column loop.
LoopStep(acc, df1, df2, col) ==
    LET mask  == ColumnMask(df1, df2, col)
        count == MaskSum(mask)
        gm    == IF acc.global_error_mask = None THEN Some(mask)
                 ELSE Some(MaskOr(acc.global_error_mask[1], mask))
    IN IF count > 0
       THEN [diff_results |->
                [c \in DOMAIN acc.diff_results \cup {col} |->
                    IF c = col
                    THEN [count |-> count, data |-> Combined(df1, df2, col, mask)]
                    ELSE acc.diff_results[c]],
             cols_with_diff |-> Append(acc.cols_with_diff, col),
             global_error_mask |-> gm]
       ELSE [acc EXCEPT !.global_error_mask = gm]

\* ---------------------------------------------------------------- results

NoResult ==
    [status |-> "none", msg |-> "", details |-> {}, heights |-> <<>>,
     diffs |-> EmptyDiffs, cols_diff |-> <<>>, total_rows |-> 0,
     rows_with_error |-> 0, full_rows_a |-> None, full_rows_b |-> None,
     sorted_by |-> <<>>]

\* {"status": "error", "msg": "Colunas diferentes.", "details": symmetric difference}
StructuralResult(cols1, cols2) ==
    [NoResult EXCEPT !.status = "error", !.msg = "Colunas diferentes.",
                     !.details = SymmetricDifference(cols1, cols2)]

\* The sort error with the exception text left out of the message.
SortErrorNoColumn(missing) ==
    [NoResult EXCEPT !.status = "error", !.msg = "Erro na ordenação"]

\* {"status": "error", "msg": "Erro na ordenação: <exception text>"}; the text
\* of polars' ColumnNotFoundError names the column it could not find.
SortErrorResult(missing) ==
    [NoResult EXCEPT !.status = "error", !.msg = "Erro na ordenação",
                     !.details = {missing}]

\* The size error with the two counts exchanged.
SizeResultSwapped(h1, h2) ==
    [NoResult EXCEPT !.status = "size_error", !.msg = "Tamanhos diferentes",
                     !.heights = <<h2, h1>>]

\* {"status": "size_error", "msg": "... (h1 vs h2) ..."}
SizeResult(h1, h2) ==
    [NoResult EXCEPT !.status = "size_error", !.msg = "Tamanhos diferentes",
                     !.heights = <<h1, h2>>]

\* The success dictionary built after the loop.
SuccessResult(acc, df1, df2, keys) ==
    LET any == acc.global_error_mask # None /\ MaskSum(acc.global_error_mask[1]) > 0
    IN [NoResult EXCEPT
           !.status = "success",
           !.diffs = acc.diff_results,
           !.cols_diff = acc.cols_with_diff,
           !.total_rows = Height(df1),
           !.rows_with_error = IF any THEN MaskSum(acc.global_error_mask[1]) ELSE 0,
           !.full_rows_a = IF any THEN Some(Filter(df1, acc.global_error_mask[1])) ELSE None,
           !.full_rows_b = IF any THEN Some(Filter(df2, acc.global_error_mask[1])) ELSE None,
           !.sorted_by = IF keys # <<>> THEN keys ELSE <<"Todas as colunas">>]

\* ----------------------------------------------------- execute_comparison

\* The key choice without the fallback to the data columns.
SortByKeysOnly(df1, keys) == keys

\* sort_keys if the caller gave any, else every data column in df1's order.
SortBy(df1, keys) == IF keys # <<>> THEN keys ELSE SelectNot(df1.columns, TagA)

\* check_cols = [c for c in df1.columns if c not in ["Linha_Original_A"]]
CheckCols(df1) == SelectNot(df1.columns, TagA)

\* The column loop over cols, from the loop state acc.
RECURSIVE Detect(_, _, _, _)
Detect(acc, df1, df2, cols) ==
    IF cols = <<>> THEN acc
    ELSE Detect(LoopStep(acc, df1, df2, Head(cols)), df1, df2, Tail(cols))

\* The whole function, from the two input tables and the key list.
execute_comparison(dfA, dfB, keys) ==
    LET t1    == WithRowIndex(dfA, TagA)
        t2    == WithRowIndex(dfB, TagB)
        cols1 == DataCols(t1, TagA)
        cols2 == DataCols(t2, TagB)
        n     == normalize_types(t1, t2)
        by    == SortBy(n[1], keys)
        miss  == MissingKeys(n[1], by) \o MissingKeys(n[2], by)
        s1    == Sort(n[1], by)
        s2    == Sort(n[2], by)
    IN IF cols1 # cols2 THEN StructuralResult(cols1, cols2)
       ELSE IF miss # <<>> THEN SortErrorResult(miss[1])
       ELSE IF Height(s1) # Height(s2) THEN SizeResult(Height(s1), Height(s2))
       ELSE SuccessResult(Detect(LoopInit, s1, s2, CheckCols(s1)), s1, s2, keys)

\* ------------------------------------------------------------------ inputs

\* Column orders of table A and of table B.
ColsA == <<"id", "amt">>
SchemasB == {<<"id", "amt">>, <<"amt", "id">>, <<"id", "amount">>}

\* Declared kinds a column may have, and the values of a column of a kind.
Dtypes(c) == IF c = "id" THEN {"Int", "String"} ELSE {"Int"}

Cells(c, d) ==
    IF c = "id"
    THEN IF d = "Int" THEN {Null, IntV(1), IntV(2)}
         ELSE {Null, StrV(<<49>>), StrV(<<32, 49>>)}
    ELSE {Null, IntV(1)}

SeqsUpTo(S, n) == UNION {[1..k -> S] : k \in 0..n}

Tables(cols) ==
    UNION {
        {[columns |-> cols, dtype |-> d, rows |-> r] :
            r \in SeqsUpTo({row \in [Range(cols) -> UNION {Cells(c, d[c]) : c \in Range(cols)}] :
                               \A c \in Range(cols) : row[c] \in Cells(c, d[c])}, MaxRows)} :
        d \in {f \in [Range(cols) -> {"Int", "String"}] : \A c \in Range(cols) : f[c] \in Dtypes(c)}}

\* Key lists the caller may pass: none, a key, two keys, a key no table has.
KeyLists == {<<>>, <<"id">>, <<"id", "amt">>, <<"id", "uf">>}

\* ----------------------------------------------------------- state machine

VARIABLES
    inA,        \* the first table passed to execute_comparison
    inB,        \* the second table passed to execute_comparison
    sort_keys,  \* the key list passed to execute_comparison
    pc,         \* the position in execute_comparison
    df1,        \* the local df1
    df2,        \* the local df2
    i,          \* the number of columns the loop has compared
    acc,        \* diff_results, cols_with_diff, global_error_mask
    result      \* the returned dictionary

vars == <<inA, inB, sort_keys, pc, df1, df2, i, acc, result>>

Init ==
    /\ inA \in Tables(ColsA)
    /\ inB \in UNION {Tables(s) : s \in SchemasB}
    /\ sort_keys \in KeyLists
    /\ pc = "start"
    /\ df1 = inA
    /\ df2 = inB
    /\ i = 0
    /\ acc = LoopInit
    /\ result = NoResult

\* Lines 83-91: tag both tables, then compare the data-column name sets.
Validate ==
    /\ pc = "start"
    /\ LET t1    == WithRowIndex(df1, TagA)
           t2    == WithRowIndex(df2, TagB)
           cols1 == DataCols(t1, TagA)
           cols2 == DataCols(t2, TagB)
       IN /\ df1' = t1
          /\ df2' = t2
          /\ IF cols1 # cols2
             THEN pc' = "done" /\ result' = StructuralResult(cols1, cols2)
             ELSE pc' = "normalize" /\ result' = result
    /\ UNCHANGED <<inA, inB, sort_keys, i, acc>>

\* Line 94.
Normalize ==
    /\ pc = "normalize"
    /\ df1' = normalize_types(df1, df2)[1]
    /\ df2' = normalize_types(df1, df2)[2]
    /\ pc' = "sort"
    /\ UNCHANGED <<inA, inB, sort_keys, i, acc, result>>

\* Lines 98-112: sort both tables; a missing key column returns the error.
SortTables ==
    /\ pc = "sort"
    /\ LET by   == SortBy(df1, sort_keys)
           miss == MissingKeys(df1, by) \o MissingKeys(df2, by)
       IN IF miss # <<>>
          THEN /\ pc' = "done"
               /\ result' = SortErrorResult(miss[1])
               /\ UNCHANGED <<df1, df2>>
          ELSE /\ pc' = "size"
               /\ df1' = Sort(df1, by)
               /\ df2' = Sort(df2, by)
               /\ result' = result
    /\ UNCHANGED <<inA, inB, sort_keys, i, acc>>

\* Lines 114-125.
CheckSize ==
    /\ pc = "size"
    /\ IF Height(df1) # Height(df2)
       THEN pc' = "done" /\ result' = SizeResult(Height(df1), Height(df2))
       ELSE pc' = "detect" /\ result' = result
    /\ i' = 0
    /\ acc' = LoopInit
    /\ UNCHANGED <<inA, inB, sort_keys, df1, df2>>

\* Lines 132-153: one iteration of the column loop.
DetectColumn ==
    /\ pc = "detect"
    /\ i < Len(CheckCols(df1))
    /\ acc' = LoopStep(acc, df1, df2, CheckCols(df1)[i + 1])
    /\ i' = i + 1
    /\ UNCHANGED <<inA, inB, sort_keys, pc, df1, df2, result>>

\* Lines 157-171.
Aggregate ==
    /\ pc = "detect"
    /\ i = Len(CheckCols(df1))
    /\ result' = SuccessResult(acc, df1, df2, sort_keys)
    /\ pc' = "done"
    /\ UNCHANGED <<inA, inB, sort_keys, df1, df2, i, acc>>

Next == Validate \/ Normalize \/ SortTables \/ CheckSize \/ DetectColumn \/ Aggregate

Spec == Init /\ [][Next]_vars

\* The step-by-step run returns what the function computes.
RunIsFunction == pc = "done" => result = execute_comparison(inA, inB, sort_keys)

\* ------------------------------------------------------------ properties

Done == pc = "done"

IsStructural(r) == r.status = "error" /\ r.msg = "Colunas diferentes."
IsSortError(r) == r.status = "error" /\ r.msg = "Erro na ordenação"
IsSizeMismatch(r) == r.status = "size_error"
IsSuccess(r) == r.status = "success"

\* The data-column names of the two input tables.
NamesA == Range(inA.columns)
NamesB == Range(inB.columns)

\* The result carries no diff data at all.
NoDiffData(r) ==
    /\ r.cols_diff = <<>>
    /\ DOMAIN r.diffs = {}
    /\ r.full_rows_a = None
    /\ r.full_rows_b = None
    /\ r.rows_with_error = 0

\* How often x occurs in the sequence q.
RECURSIVE Occurrences(_, _)
Occurrences(x, q) ==
    IF q = <<>> THEN 0
    ELSE (IF Head(q) = x THEN 1 ELSE 0) + Occurrences(x, Tail(q))

SameMultiset(q1, q2) ==
    /\ Len(q1) = Len(q2)
    /\ \A x \in Range(q1) \cup Range(q2) : Occurrences(x, q1) = Occurrences(x, q2)

\* C1: the result is StructuralMismatch exactly when the data-column name sets
\* of the two inputs differ, whatever the rows and keys, and it then carries
\* the symmetric difference of the two name sets.
C1_SchemaGate ==
    Done =>
        /\ IsStructural(result) <=> NamesA # NamesB
        /\ IsStructural(result) =>
               result.details = (NamesA \ NamesB) \cup (NamesB \ NamesA)

C1_Witness ==
    /\ Done
    /\ IsStructural(result)
    /\ result.details = {"amt", "amount"}
    /\ Height(inA) = 2
    /\ Height(inB) = 0

\* C2: a table compared with an exact copy of itself, under any key list
\* made of its columns (the empty list and keys with duplicate values
\* included), gives Success with no mismatched column, no per-column diff,
\* zero rows with error, and total_rows equal to the table's row count.
C2_Idempotence ==
    (Done /\ inB = inA /\ Range(sort_keys) \subseteq NamesA) =>
        /\ IsSuccess(result)
        /\ result.cols_diff = <<>>
        /\ DOMAIN result.diffs = {}
        /\ result.rows_with_error = 0
        /\ result.total_rows = Height(inA)

C2_Witness ==
    /\ Done
    /\ inB = inA
    /\ sort_keys = <<"id">>
    /\ Height(inA) = 2
    /\ inA.rows[1]["id"] = Null
    /\ inA.rows[2]["id"] = Null
    /\ inA.rows[1]["amt"] # inA.rows[2]["amt"]
    /\ IsSuccess(result)

\* C3: two tables with the same data-column names and the same multiset of
\* data rows, in any physical order and with the columns listed in any order,
\* compared without keys, give Success with no mismatched column and zero
\* rows with error.
C3_OrderIndependence ==
    (Done /\ sort_keys = <<>> /\ NamesA = NamesB /\ SameMultiset(inA.rows, inB.rows)) =>
        /\ IsSuccess(result)
        /\ result.cols_diff = <<>>
        /\ result.rows_with_error = 0

C3_Witness ==
    /\ Done
    /\ sort_keys = <<>>
    /\ NamesA = NamesB
    /\ inA.columns # inB.columns
    /\ SameMultiset(inA.rows, inB.rows)
    /\ Height(inA) = 2
    /\ inA.rows[1] = inB.rows[2]
    /\ inA.rows[1] # inA.rows[2]
    /\ IsSuccess(result)

\* C6: with equal name sets, every key a column and different row counts the
\* result is SizeMismatch carrying A's count then B's and no diff data; every
\* Success was computed on two aligned tables of equal row count, which is
\* total_rows.
C6_SizeGate ==
    Done =>
        /\ (NamesA = NamesB /\ Range(sort_keys) \subseteq NamesA
                /\ Height(inA) # Height(inB)) =>
               /\ IsSizeMismatch(result)
               /\ result.heights = <<Height(inA), Height(inB)>>
               /\ NoDiffData(result)
        /\ IsSuccess(result) =>
               /\ Height(df1) = Height(df2)
               /\ result.total_rows = Height(df1)
               /\ Height(inA) = result.total_rows
               /\ Height(inB) = result.total_rows

C6_Witness ==
    /\ Done
    /\ IsSizeMismatch(result)
    /\ result.heights = <<2, 1>>
    /\ sort_keys = <<"id">>

\* C7: with equal name sets and a key that is no column of the tables, the
\* result is the sort error naming a missing key, for equal and for unequal
\* row counts alike, and it is told apart from StructuralMismatch.
C7_MissingKey ==
    (Done /\ NamesA = NamesB /\ ~(Range(sort_keys) \subseteq NamesA)) =>
        /\ IsSortError(result)
        /\ result.details # {}
        /\ result.details \subseteq Range(sort_keys) \ NamesA
        /\ ~IsStructural(result)
        /\ result.msg # StructuralResult(NamesA, NamesB).msg
        /\ NoDiffData(result)

C7_Witness ==
    /\ Done
    /\ IsSortError(result)
    /\ result.details = {"uf"}
    /\ Height(inA) = 2
    /\ Height(inB) = 1

\* A DiffRecord with its A half and its B half exchanged.
SwapRecord(rec) ==
    [Linha_Original_A |-> rec.Linha_Original_B,
     Linha_Original_B |-> rec.Linha_Original_A,
     Valor_Arq_A      |-> rec.Valor_Arq_B,
     Valor_Arq_B      |-> rec.Valor_Arq_A]

\* r and s end in the same status and, on Success, report the same mismatched
\* columns, the same rows with error and the same DiffRecords, halves swapped.
Mirror(r, s) ==
    /\ r.status = s.status
    /\ r.msg = s.msg
    /\ IsSuccess(r) =>
           /\ Range(r.cols_diff) = Range(s.cols_diff)
           /\ r.rows_with_error = s.rows_with_error
           /\ DOMAIN r.diffs = DOMAIN s.diffs
           /\ \A c \in DOMAIN r.diffs \cap DOMAIN s.diffs :
                  {SwapRecord(rec) : rec \in Range(r.diffs[c].data)}
                      = Range(s.diffs[c].data)

\* C4: execute_comparison(A, B, keys) and execute_comparison(B, A, keys) end
\* in the same status and on Success give the same mismatched columns, the
\* same rows with error and the same DiffRecords with the halves swapped, for
\* every key list and every column order.
C4_Symmetry ==
    Done => Mirror(result, execute_comparison(inB, inA, sort_keys))

\* The symmetry that does hold: with a key list, or with both tables listing
\* their columns in the same order.
C4_SymmetrySameOrder ==
    (Done /\ (sort_keys # <<>> \/ inA.columns = inB.columns)) =>
        Mirror(result, execute_comparison(inB, inA, sort_keys))

\* Null-aware inequality, stated on the parts of two values.
Differ(a, b) ==
    \/ IsNull(a) /\ ~IsNull(b)
    \/ ~IsNull(a) /\ IsNull(b)
    \/ ~IsNull(a) /\ ~IsNull(b) /\ (a.k # b.k \/ a.i # b.i \/ a.s # b.s)

\* The columns the loop has compared so far.
ComparedCols == {CheckCols(df1)[j] : j \in 1..i}

\* C5: the mismatch mask of a column is a boolean at every aligned position:
\* false when both values are null or both are non-null and equal, true when
\* exactly one is null or both are non-null and unequal; the count the loop
\* records for the column is the number of true positions.
C5_NullAware ==
    (pc = "detect" \/ (Done /\ IsSuccess(result))) =>
        \A c \in ComparedCols :
            LET mask == ColumnMask(df1, df2, c)
                bad  == {p \in 1..Height(df1) : Differ(df1.rows[p][c], df2.rows[p][c])}
            IN /\ \A p \in 1..Height(df1) :
                      /\ mask[p] \in BOOLEAN
                      /\ mask[p] <=> p \in bad
               /\ c \in DOMAIN acc.diff_results <=> bad # {}
               /\ c \in DOMAIN acc.diff_results =>
                      acc.diff_results[c].count = Cardinality(bad)

C5_Witness ==
    /\ pc = "detect"
    /\ "id" \in ComparedCols
    /\ Height(df1) = 2
    /\ IsNull(df1.rows[1]["id"]) /\ IsNull(df2.rows[1]["id"])
    /\ IsNull(df1.rows[2]["id"]) /\ ~IsNull(df2.rows[2]["id"])
    /\ acc.diff_results["id"].count = 1

\* The key tuple of a row.
KeyOf(row, keys) == [j \in 1..Len(keys) |-> row[keys[j]]]

KeySet(df, keys) == {KeyOf(df.rows[p], keys) : p \in 1..Height(df)}

KeysUnique(df, keys) == Cardinality(KeySet(df, keys)) = Height(df)

\* The row of df whose tag is t.
RowTagged(df, tag, t) == CHOOSE r \in Range(df.rows) : r[tag] = t

\* The comparison succeeded under a caller-supplied key list whose key tuples
\* are unique within each table.
KeyedSuccess ==
    /\ Done
    /\ IsSuccess(result)
    /\ sort_keys # <<>>
    /\ KeysUnique(df1, sort_keys)
    /\ KeysUnique(df2, sort_keys)

\* C8 as stated: under unique caller-supplied keys, a row of A and a row of B
\* with the same key tuple occupy the same aligned position.
C8_KeyAlignment ==
    KeyedSuccess =>
        \A p \in 1..Height(df1), q \in 1..Height(df2) :
            KeyOf(df1.rows[p], sort_keys) = KeyOf(df2.rows[q], sort_keys) => p = q

\* C8 amended: when moreover the two tables hold the same set of key tuples,
\* rows with the same key tuple occupy the same aligned position and every
\* DiffRecord pairs two rows with the same key tuple.
C8_KeyAlignmentSameKeys ==
    (KeyedSuccess /\ KeySet(df1, sort_keys) = KeySet(df2, sort_keys)) =>
        /\ \A p \in 1..Height(df1), q \in 1..Height(df2) :
               KeyOf(df1.rows[p], sort_keys) = KeyOf(df2.rows[q], sort_keys) <=> p = q
        /\ \A c \in DOMAIN result.diffs :
               \A rec \in Range(result.diffs[c].data) :
                   KeyOf(RowTagged(df1, TagA, rec.Linha_Original_A), sort_keys)
                       = KeyOf(RowTagged(df2, TagB, rec.Linha_Original_B), sort_keys)

C8_Witness ==
    /\ KeyedSuccess
    /\ KeySet(df1, sort_keys) = KeySet(df2, sort_keys)
    /\ Height(df1) = 2
    /\ df1.rows[1][TagA] = IntV(3)
    /\ df2.rows[1][TagB] = IntV(2)
    /\ result.cols_diff = <<"amt">>

\* The value of column c in the k-th data row of input table x, as
\* normalize_types leaves it when the other input is y.
NormalizedCell(x, y, k, c) == NormalizeValue(x.dtype[c], y.dtype[c], x.rows[k][c])

\* The rows of the working table df carry the tags of the rows of input x
\* they come from: tag k + 1 for the k-th data row, each tag once.
TagsTravel(df, tag, x, y) ==
    /\ Height(df) = Height(x)
    /\ {df.rows[p][tag] : p \in 1..Height(df)} = {IntV(k + 1) : k \in 1..Height(x)}
    /\ \A p \in 1..Height(df) :
           LET k == df.rows[p][tag].i - 1
           IN \A c \in Range(x.columns) :
                  df.rows[p][c] =
                      IF pc = "normalize" \/ IsStructural(result)
                      THEN x.rows[k][c]
                      ELSE NormalizedCell(x, y, k, c)

\* C9: once tagged, every row keeps the tag of its source position (tag k + 1
\* for the k-th data row) through normalization, sorting and filtering; on
\* Success every DiffRecord of column c holds the normalized values of c in
\* the rows of A and B at the recorded source positions, the two rows shared
\* an aligned position, and the two values differ under null-aware equality.
C9_TagTraceability ==
    /\ pc = "normalize" =>
           /\ \A p \in 1..Height(df1) : df1.rows[p][TagA] = IntV(p + 1)
           /\ \A p \in 1..Height(df2) : df2.rows[p][TagB] = IntV(p + 1)
    /\ pc # "start" =>
           /\ TagsTravel(df1, TagA, inA, inB)
           /\ TagsTravel(df2, TagB, inB, inA)
    /\ (Done /\ IsSuccess(result)) =>
           \A c \in DOMAIN result.diffs :
               \A rec \in Range(result.diffs[c].data) :
                   LET ka == rec.Linha_Original_A.i - 1
                       kb == rec.Linha_Original_B.i - 1
                   IN /\ ka \in 1..Height(inA)
                      /\ kb \in 1..Height(inB)
                      /\ rec.Valor_Arq_A = NormalizedCell(inA, inB, ka, c)
                      /\ rec.Valor_Arq_B = NormalizedCell(inB, inA, kb, c)
                      /\ \E p \in 1..Height(df1) :
                             /\ df1.rows[p][TagA] = rec.Linha_Original_A
                             /\ df2.rows[p][TagB] = rec.Linha_Original_B
                      /\ Differ(rec.Valor_Arq_A, rec.Valor_Arq_B)

C9_Witness ==
    /\ Done
    /\ IsSuccess(result)
    /\ "id" \in DOMAIN result.diffs
    /\ inA.dtype["id"] # inB.dtype["id"]
    /\ \E rec \in Range(result.diffs["id"].data) :
           /\ rec.Linha_Original_A = IntV(3)
           /\ rec.Linha_Original_B = IntV(2)
           /\ rec.Valor_Arq_A = StrV(<<50>>)
           /\ IsNull(rec.Valor_Arq_B)

\* The aligned positions at which some data column differs.
ErrorPositions ==
    {p \in 1..Height(df1) : \E c \in NamesA : Differ(df1.rows[p][c], df2.rows[p][c])}

\* The rows of q at the positions in S, in order.
RowsAt(q, S) ==
    LET F[n \in 0..Len(q)] ==
            IF n = 0 THEN <<>>
            ELSE IF n \in S THEN Append(F[n - 1], q[n]) ELSE F[n - 1]
    IN F[Len(q)]

RECURSIVE SumCounts(_, _)
SumCounts(diffs, cols) ==
    IF cols = <<>> THEN 0
    ELSE diffs[Head(cols)].count + SumCounts(diffs, Tail(cols))

\* C10: on Success rows_with_error is the number of aligned positions at
\* which some data column mismatches; the mismatched-column list is non-empty
\* exactly when it is positive; each column's count is at most rows_with_error,
\* which is at most the sum of the counts and at most total_rows; the two
\* full-row subsets hold exactly the rows at those positions, in aligned
\* order, with every column kept.
C10_GlobalMask ==
    (Done /\ IsSuccess(result)) =>
        /\ result.rows_with_error = Cardinality(ErrorPositions)
        /\ result.cols_diff # <<>> <=> result.rows_with_error > 0
        /\ Range(result.cols_diff) = DOMAIN result.diffs
        /\ \A c \in DOMAIN result.diffs :
               result.diffs[c].count <= result.rows_with_error
        /\ result.rows_with_error <= SumCounts(result.diffs, result.cols_diff)
        /\ result.rows_with_error <= result.total_rows
        /\ IF ErrorPositions = {}
           THEN result.full_rows_a = None /\ result.full_rows_b = None
           ELSE /\ result.full_rows_a =
                       Some([df1 EXCEPT !.rows = RowsAt(df1.rows, ErrorPositions)])
                /\ result.full_rows_b =
                       Some([df2 EXCEPT !.rows = RowsAt(df2.rows, ErrorPositions)])
                /\ Range(result.full_rows_a[1].columns) = NamesA \cup {TagA}
                /\ Range(result.full_rows_b[1].columns) = NamesA \cup {TagB}

C10_Witness ==
    /\ Done
    /\ IsSuccess(result)
    /\ result.total_rows = 2
    /\ result.rows_with_error = 2
    /\ Len(result.cols_diff) = 2
    /\ \A c \in DOMAIN result.diffs : result.diffs[c].count = 1

====
